---- MODULE Spec2Model ----
(***************************************************************************)
(* Model of the two fine-tuning scripts of model-trainer:                  *)
(*   trainer.py               (samsum, with RougeCallback)                 *)
(*   empathetic_summaries.py  (empathetic_dialogues_summary)               *)
(* Five specifications share the module, one per component:                *)
(*   SpecFeat   convert_examples_to_features                               *)
(*   SpecSplit  the percentage slices train_valid_test_split               *)
(*   SpecBatch  calculate_metric_on_test_ds (module utils)                 *)
(*   SpecCkpt   generate_summaries_for_checkpoints (checkpoint_summarizer) *)
(*   SpecPipe   the top-level statement sequence of either script          *)
(***************************************************************************)
EXTENDS Integers, Sequences, FiniteSets, TLC

VARIABLES
    \* convert_examples_to_features
    example_batch,      \* tokenizer output per example: [dialogue, summary]
    target_encodings,   \* the dict target_encodings: [input_ids, labels]
    features,           \* the returned dict
    conv_pc,            \* "ready" before the call, "returned" after it
    \* train_valid_test_split
    num_examples,       \* size of the source collection 'train'
    dataset_empathic,   \* split name -> sequence of example indices
    split_pc,           \* splits still to be read
    \* calculate_metric_on_test_ds
    test_ds,            \* the evaluated split, a sequence of example indices
    batch_size,
    batch_pos,          \* index of the first example not yet batched
    generate_calls,     \* the batches handed to model.generate, in order
    metric_batches,     \* what the accumulator received through add_batch
    eval_pc,
    \* generate_summaries_for_checkpoints
    checkpoints,        \* per checkpoint directory: "ok", "load_fail", "gen_fail"
    ckpt_pos,
    summaries,          \* the (checkpoint name, summary) pairs produced
    ckpt_errors,        \* checkpoints for which an error was logged
    ckpt_pc,
    \* the top-level statements of a script
    script,             \* "trainer" or "empathetic"
    pc,                 \* index of the next statement of Program(script)
    status,             \* "running", "done" or "crashed"
    trace,              \* the statements attempted so far, with their result
    log,                \* the logging.error messages, in order
    rouge_log,          \* state.epoch of every "ROUGE scores after epoch" line
    evaluator_calls,    \* invocations of calculate_metric_on_test_ds
    \* the Trainer while trainer.train() runs
    args,               \* TrainingArguments
    state,              \* TrainerState: global_step, epoch
    control,            \* TrainerControl
    weights,            \* number of updates applied to the model weights
    optimizer,          \* number of optimizer steps taken
    train_pc            \* "step", "evaluate", "on_evaluate"

featVars  == <<example_batch, target_encodings, features, conv_pc>>
splitVars == <<num_examples, dataset_empathic, split_pc>>
batchVars == <<test_ds, batch_size, batch_pos, generate_calls, metric_batches, eval_pc>>
ckptVars  == <<checkpoints, ckpt_pos, summaries, ckpt_errors, ckpt_pc>>
runVars   == <<script, pc, status, trace, log, rouge_log, evaluator_calls>>
trainVars == <<args, state, control, weights, optimizer, train_pc>>
pipeVars  == <<runVars, trainVars>>
vars      == <<featVars, splitVars, batchVars, ckptVars, pipeVars>>

----------------------------------------------------------------------------
(* Bounds *)
MaxTok   == 1       \* token ids are 0..MaxTok
MaxLen   == 2       \* longest tokenized sequence
MaxBatch == 2       \* largest example batch handed to the converter
MaxExamples == 30   \* largest source collection that is split
MaxEval  == 8       \* largest evaluated split
MaxBatchSize == 4   \* largest batch size of the evaluator
MaxCheckpoints == 3 \* most checkpoint directories under the root
StepsPerEpoch == 2  \* optimizer steps in one epoch of the training set
EvalSteps == 3      \* eval_steps, scaled down from 500 with the epoch length

----------------------------------------------------------------------------
(* Generic helpers *)
Min(a, b) == IF a < b THEN a ELSE b

Range(s) == {s[i] : i \in 1..Len(s)}

SeqsUpTo(S, n) == UNION {[1..k -> S] : k \in 0..n}

\* Python's s[:-1]
DropLast(s) == IF Len(s) = 0 THEN <<>> ELSE SubSeq(s, 1, Len(s) - 1)

----------------------------------------------------------------------------
(* convert_examples_to_features                                            *)

\* tokenizer.pad_token_id of google/pegasus-cnn_dailymail
pad_token_id == 0

TokenIds == 0..MaxTok

\* What tokenizer(...) may return for one example.  The tokenizer is an
\* external collaborator; the converter puts no condition on its output.
Dialogues == {<<1>>, <<1, 1>>}
Summaries == SeqsUpTo(TokenIds, MaxLen)
Examples  == [dialogue : Dialogues, summary : Summaries]

\* a shift that keeps the last token: [pad] + ids
ShiftRightKeepLast(ids) == <<pad_token_id>> \o ids

\* [tokenizer.pad_token_id] + ids[:-1]
ShiftRight(ids) == <<pad_token_id>> \o DropLast(ids)

\* attention mask of an unpadded encoding: one 1 per token
AttentionMask(ids) == [i \in 1..Len(ids) |-> 1]

\* target_encodings after lines 96-97: 'labels' holds the copy made first,
\* 'input_ids' is then overwritten by the shifted sequences.
TargetEncodings(batch) ==
    [labels    |-> [i \in 1..Len(batch) |-> batch[i].summary],
     input_ids |-> [i \in 1..Len(batch) |-> ShiftRight(batch[i].summary)]]

\* the returned dict (lines 99-103): 'labels' is target_encodings['input_ids']
ReturnedFeatures(batch, tgt) ==
    [input_ids      |-> [i \in 1..Len(batch) |-> batch[i].dialogue],
     attention_mask |-> [i \in 1..Len(batch) |-> AttentionMask(batch[i].dialogue)],
     labels         |-> tgt.input_ids]

EmptyEncodings == [labels |-> <<>>, input_ids |-> <<>>]
EmptyFeatures  == [input_ids |-> <<>>, attention_mask |-> <<>>, labels |-> <<>>]

InitFeat ==
    /\ example_batch \in SeqsUpTo(Examples, MaxBatch)
    /\ target_encodings = EmptyEncodings
    /\ features = EmptyFeatures
    /\ conv_pc = "ready"

convert_examples_to_features ==
    /\ conv_pc = "ready"
    /\ target_encodings' = TargetEncodings(example_batch)
    /\ features' = ReturnedFeatures(example_batch, target_encodings')
    /\ conv_pc' = "returned"
    /\ UNCHANGED example_batch

IdleFeat ==
    /\ example_batch = <<>>
    /\ target_encodings = EmptyEncodings
    /\ features = EmptyFeatures
    /\ conv_pc = "idle"

----------------------------------------------------------------------------
(* Dataset splitting by percentage slices (empathetic_summaries.py)        *)

\* an open end of a slice, as in 'train[:80%]'
None == -1

\* slices whose validation part starts inside the training part
overlapping_split ==
    [train      |-> [from |-> None, to |-> 80],
     validation |-> [from |-> 70,   to |-> 90],
     test       |-> [from |-> 90,   to |-> None]]

\* 'train[:80%]', 'train[80%:90%]', 'train[90%:]'
train_valid_test_split ==
    [train      |-> [from |-> None, to |-> 80],
     validation |-> [from |-> 80,   to |-> 90],
     test       |-> [from |-> 90,   to |-> None]]

\* the order in which the dict lists the splits
SplitNames == <<"train", "validation", "test">>

\* Python's round() of the exact quotient num / den (ties to even)
RoundHalfEven(num, den) ==
    LET q == num \div den
        r == num % den
    IN  IF 2 * r < den THEN q
        ELSE IF 2 * r > den THEN q + 1
        ELSE IF q % 2 = 0 THEN q ELSE q + 1

\* a percent boundary as an absolute index: the slicing API rounds
\* boundary * num_examples / 100 to the closest integer
PctToAbs(boundary, n) == RoundHalfEven(boundary * n, 100)

\* the examples selected by one slice of a collection of n examples
ReadSlice(slice, n) ==
    LET from == IF slice.from = None THEN 0 ELSE PctToAbs(slice.from, n)
        to   == IF slice.to = None THEN n ELSE PctToAbs(slice.to, n)
    IN  [i \in 1..(IF to > from THEN to - from ELSE 0) |-> from + i]

NoSplits == [train |-> <<>>, validation |-> <<>>, test |-> <<>>]

InitSplit ==
    /\ num_examples \in 0..MaxExamples
    /\ dataset_empathic = NoSplits
    /\ split_pc = SplitNames

\* load_dataset(..., split=train_valid_test_split), one split at a time
LoadSplit ==
    /\ split_pc # <<>>
    /\ LET name == Head(split_pc)
       IN  dataset_empathic' =
              [dataset_empathic EXCEPT
                  ![name] = ReadSlice(train_valid_test_split[name], num_examples)]
    /\ split_pc' = Tail(split_pc)
    /\ UNCHANGED num_examples

IdleSplit ==
    /\ num_examples = 0
    /\ dataset_empathic = NoSplits
    /\ split_pc = <<>>

----------------------------------------------------------------------------
(* calculate_metric_on_test_ds (utils): batched metric evaluation          *)

InitBatch ==
    /\ test_ds \in {[i \in 1..n |-> i] : n \in 0..MaxEval}
    /\ batch_size \in 1..MaxBatchSize
    /\ batch_pos = 1
    /\ generate_calls = <<>>
    /\ metric_batches = <<>>
    /\ eval_pc = "batches"

\* a chunk padded to full size by repeating the last example
BatchAtPadded(dataset, pos, size) ==
    [i \in 1..size |-> dataset[Min(pos + i - 1, Len(dataset))]]

\* the contiguous chunk of the dataset that starts at pos
BatchAt(dataset, pos, size) ==
    SubSeq(dataset, pos, Min(pos + size - 1, Len(dataset)))

\* one iteration of the loop: generate for the chunk, feed the accumulator
GenerateBatch ==
    /\ eval_pc = "batches"
    /\ batch_pos <= Len(test_ds)
    /\ LET batch == BatchAt(test_ds, batch_pos, batch_size)
       IN  /\ generate_calls' = Append(generate_calls, batch)
           /\ metric_batches' = Append(metric_batches, batch)
    /\ batch_pos' = batch_pos + batch_size
    /\ UNCHANGED <<test_ds, batch_size, eval_pc>>

\* the loop is exhausted: the accumulator is finalized and returned
ComputeScore ==
    /\ eval_pc = "batches"
    /\ batch_pos > Len(test_ds)
    /\ eval_pc' = "finalized"
    /\ UNCHANGED <<test_ds, batch_size, batch_pos, generate_calls, metric_batches>>

IdleBatch ==
    /\ test_ds = <<>>
    /\ batch_size = 1
    /\ batch_pos = 1
    /\ generate_calls = <<>>
    /\ metric_batches = <<>>
    /\ eval_pc = "idle"

----------------------------------------------------------------------------
(* generate_summaries_for_checkpoints (checkpoint_summarizer)              *)

CheckpointOutcomes == {"ok", "load_fail", "gen_fail"}

InitCkpt ==
    /\ checkpoints \in SeqsUpTo(CheckpointOutcomes, MaxCheckpoints)
    /\ ckpt_pos = 1
    /\ summaries = <<>>
    /\ ckpt_errors = <<>>
    /\ ckpt_pc = "iterating"

\* the pipeline loads and generates: the pair is recorded
SummarizeCheckpoint ==
    /\ ckpt_pc = "iterating"
    /\ ckpt_pos <= Len(checkpoints)
    /\ checkpoints[ckpt_pos] = "ok"
    /\ summaries' = Append(summaries, <<ckpt_pos, "summary">>)
    /\ ckpt_pos' = ckpt_pos + 1
    /\ UNCHANGED <<checkpoints, ckpt_errors, ckpt_pc>>

\* a failing checkpoint whose exception leaves the generator
OnCheckpointFailureRaise(pos) ==
    /\ ckpt_errors' = ckpt_errors
    /\ ckpt_pos' = pos
    /\ ckpt_pc' = "raised"

\* what a failing checkpoint does to the generator: caught, logged, skipped
OnCheckpointFailure(pos) ==
    /\ ckpt_errors' = Append(ckpt_errors, pos)
    /\ ckpt_pos' = pos + 1
    /\ ckpt_pc' = "iterating"

\* loading or generating fails for the current checkpoint
SkipCheckpoint ==
    /\ ckpt_pc = "iterating"
    /\ ckpt_pos <= Len(checkpoints)
    /\ checkpoints[ckpt_pos] # "ok"
    /\ OnCheckpointFailure(ckpt_pos)
    /\ UNCHANGED <<checkpoints, summaries>>

\* every directory was visited: the report is written, the pairs returned
ReturnSummaries ==
    /\ ckpt_pc = "iterating"
    /\ ckpt_pos > Len(checkpoints)
    /\ ckpt_pc' = "returned"
    /\ UNCHANGED <<checkpoints, ckpt_pos, summaries, ckpt_errors>>

IdleCkpt ==
    /\ checkpoints = <<>>
    /\ ckpt_pos = 1
    /\ summaries = <<>>
    /\ ckpt_errors = <<>>
    /\ ckpt_pc = "idle"

----------------------------------------------------------------------------
(* The scripts: their top-level statements in program order                *)

Scripts == {"trainer", "empathetic"}

SetupSteps ==
    <<"load_model", "load_dataset", "baseline_pipeline", "baseline_score",
      "histogram", "savefig", "convert", "init_trainer">>

\* empathetic_summaries.py with the saves moved before the final scoring
ProgramSaveBeforeScore(s) ==
    IF s = "trainer"
    THEN SetupSteps \o
         <<"train", "save_trainer_model", "save_tokenizer", "summarize",
           "checkpoint_summaries">>
    ELSE SetupSteps \o
         <<"train", "save_model_pegasus", "save_trainer_model",
           "save_tokenizer", "final_score", "summarize">>

\* trainer.py with a final scoring between training and the model save
ProgramScoreInTrainer(s) ==
    IF s = "trainer"
    THEN SetupSteps \o
         <<"train", "final_score", "save_trainer_model", "save_tokenizer",
           "summarize", "checkpoint_summaries">>
    ELSE SetupSteps \o
         <<"train", "final_score", "save_model_pegasus", "save_trainer_model",
           "save_tokenizer", "summarize">>

\* the statements of each script, in the order the file lists them
Program(s) ==
    IF s = "trainer"
    THEN SetupSteps \o
         <<"train", "save_trainer_model", "save_tokenizer", "summarize",
           "checkpoint_summaries">>
    ELSE SetupSteps \o
         <<"train", "final_score", "save_model_pegasus", "save_trainer_model",
           "save_tokenizer", "summarize">>

\* the statements wrapped in try / except Exception
TrySteps(s) ==
    IF s = "trainer"
    THEN {"save_trainer_model", "save_tokenizer", "summarize"}
    ELSE {"savefig", "save_model_pegasus", "save_trainer_model",
          "save_tokenizer", "summarize"}

\* generate_summaries_for_checkpoints isolates its failures and returns
NeverRaises == {"checkpoint_summaries"}

ModelSaveSteps == {"save_model_pegasus", "save_trainer_model"}
SaveSteps == ModelSaveSteps \cup {"save_tokenizer"}

\* the statements that call calculate_metric_on_test_ds directly
ScoreSteps == {"baseline_score", "final_score"}

\* the message of the logging.error in each except clause
ErrorMessage(step) ==
    CASE step = "savefig"            -> "Error saving token histogram plot"
      [] step = "save_model_pegasus" -> "Error saving model stage 1"
      [] step = "save_trainer_model" -> "Error saving model"
      [] step = "save_tokenizer"     -> "Error saving tokenizer"
      [] step = "summarize"          -> "Error during summarization"

num_train_epochs(s) == IF s = "trainer" THEN 6 ELSE 4

\* callbacks=[RougeCallback(...)] is passed to the Trainer of trainer.py only
HasRougeCallback(s) == s = "trainer"

TrainerArgs(s) ==
    [num_train_epochs |-> num_train_epochs(s), eval_steps |-> EvalSteps]

MaxSteps == args.num_train_epochs * StepsPerEpoch

\* state.epoch is global_step / steps per epoch, kept as a fraction
EpochAt(step) == <<step, StepsPerEpoch>>

Stmt == Program(script)[pc]

Attempted(step) == \E i \in 1..Len(trace) : trace[i].step = step

Returned(step) ==
    \E i \in 1..Len(trace) : trace[i].step = step /\ trace[i].result = "ok"

StatusAfter(next) == IF next > Len(Program(script)) THEN "done" ELSE "running"

InitPipe ==
    /\ script \in Scripts
    /\ pc = 1
    /\ status = "running"
    /\ trace = <<>>
    /\ log = <<>>
    /\ rouge_log = <<>>
    /\ evaluator_calls = 0
    /\ args = TrainerArgs(script)
    /\ state = [global_step |-> 0, epoch |-> EpochAt(0)]
    /\ control = [should_training_stop |-> FALSE]
    /\ weights = 0
    /\ optimizer = 0
    /\ train_pc = "step"

\* a statement other than trainer.train() runs to its end
StatementReturns ==
    /\ status = "running"
    /\ Stmt # "train"
    /\ trace' = Append(trace, [step |-> Stmt, result |-> "ok"])
    /\ evaluator_calls' = evaluator_calls + (IF Stmt \in ScoreSteps THEN 1 ELSE 0)
    /\ pc' = pc + 1
    /\ status' = StatusAfter(pc + 1)
    /\ UNCHANGED <<script, log, rouge_log, trainVars>>

\* an except clause that logs and raises again
HandleFailureReraise(step) ==
    /\ log' = Append(log, ErrorMessage(step))
    /\ trace' = Append(trace, [step |-> step, result |-> "raised"])
    /\ pc' = pc
    /\ status' = "crashed"

\* the except clause of a try statement: log the error, go on
HandleFailure(step) ==
    /\ log' = Append(log, ErrorMessage(step))
    /\ trace' = Append(trace, [step |-> step, result |-> "caught"])
    /\ pc' = pc + 1
    /\ status' = StatusAfter(pc + 1)

\* a statement inside try raises
TryStatementRaises ==
    /\ status = "running"
    /\ Stmt \in TrySteps(script)
    /\ HandleFailure(Stmt)
    /\ UNCHANGED <<script, rouge_log, evaluator_calls, trainVars>>

\* a statement outside any try raises: the script terminates
StatementRaises ==
    /\ status = "running"
    /\ Stmt \notin TrySteps(script) \cup NeverRaises \cup {"train"}
    /\ trace' = Append(trace, [step |-> Stmt, result |-> "raised"])
    /\ evaluator_calls' = evaluator_calls + (IF Stmt \in ScoreSteps THEN 1 ELSE 0)
    /\ status' = "crashed"
    /\ UNCHANGED <<script, pc, log, rouge_log, trainVars>>

(* trainer.train() *)

\* one optimizer step; an evaluation is due every eval_steps steps
TrainStep ==
    /\ status = "running"
    /\ Stmt = "train"
    /\ train_pc = "step"
    /\ state.global_step < MaxSteps
    /\ ~control.should_training_stop
    /\ state' = [global_step |-> state.global_step + 1,
                 epoch |-> EpochAt(state.global_step + 1)]
    /\ weights' = weights + 1
    /\ optimizer' = optimizer + 1
    /\ train_pc' = IF (state.global_step + 1) % args.eval_steps = 0
                   THEN "evaluate" ELSE "step"
    /\ UNCHANGED <<runVars, args, control>>

\* the evaluation phase on the validation split, then the callbacks
Evaluate ==
    /\ status = "running"
    /\ Stmt = "train"
    /\ train_pc = "evaluate"
    /\ train_pc' = IF HasRougeCallback(script) THEN "on_evaluate" ELSE "step"
    /\ UNCHANGED <<runVars, args, state, control, weights, optimizer>>

\* a callback that also asks the loop to stop
OnEvaluateStopsTraining ==
    /\ evaluator_calls' = evaluator_calls + 1
    /\ rouge_log' = Append(rouge_log, state.epoch)
    /\ control' = [control EXCEPT !.should_training_stop = TRUE]
    /\ UNCHANGED <<args, state, weights, optimizer>>

\* what RougeCallback.on_evaluate does with the trainer's objects
OnEvaluateEffect ==
    /\ evaluator_calls' = evaluator_calls + 1
    /\ rouge_log' = Append(rouge_log, state.epoch)
    /\ UNCHANGED <<args, state, control, weights, optimizer>>

\* RougeCallback.on_evaluate
on_evaluate ==
    /\ status = "running"
    /\ Stmt = "train"
    /\ train_pc = "on_evaluate"
    /\ OnEvaluateEffect
    /\ train_pc' = "step"
    /\ UNCHANGED <<script, pc, status, trace, log>>

\* the evaluator raises inside on_evaluate: train() propagates it
on_evaluate_raises ==
    /\ status = "running"
    /\ Stmt = "train"
    /\ train_pc = "on_evaluate"
    /\ evaluator_calls' = evaluator_calls + 1
    /\ trace' = Append(trace, [step |-> "train", result |-> "raised"])
    /\ status' = "crashed"
    /\ UNCHANGED <<script, pc, log, rouge_log, trainVars>>

\* a training or evaluation step raises
TrainRaises ==
    /\ status = "running"
    /\ Stmt = "train"
    /\ train_pc \in {"step", "evaluate"}
    /\ state.global_step < MaxSteps
    /\ trace' = Append(trace, [step |-> "train", result |-> "raised"])
    /\ status' = "crashed"
    /\ UNCHANGED <<script, pc, log, rouge_log, evaluator_calls, trainVars>>

\* trainer.train() returns
TrainReturns ==
    /\ status = "running"
    /\ Stmt = "train"
    /\ train_pc = "step"
    /\ state.global_step = MaxSteps \/ control.should_training_stop
    /\ trace' = Append(trace, [step |-> "train", result |-> "ok"])
    /\ pc' = pc + 1
    /\ status' = StatusAfter(pc + 1)
    /\ UNCHANGED <<script, log, rouge_log, evaluator_calls, trainVars>>

IdlePipe ==
    /\ script = "trainer"
    /\ pc = 1
    /\ status = "idle"
    /\ trace = <<>>
    /\ log = <<>>
    /\ rouge_log = <<>>
    /\ evaluator_calls = 0
    /\ args = TrainerArgs("trainer")
    /\ state = [global_step |-> 0, epoch |-> EpochAt(0)]
    /\ control = [should_training_stop |-> FALSE]
    /\ weights = 0
    /\ optimizer = 0
    /\ train_pc = "step"

----------------------------------------------------------------------------
(* Specifications *)

NextFeat == convert_examples_to_features /\ UNCHANGED <<splitVars, batchVars, ckptVars, pipeVars>>

NextSplit == LoadSplit /\ UNCHANGED <<featVars, batchVars, ckptVars, pipeVars>>

NextBatch ==
    \/ GenerateBatch /\ UNCHANGED <<featVars, splitVars, ckptVars, pipeVars>>
    \/ ComputeScore /\ UNCHANGED <<featVars, splitVars, ckptVars, pipeVars>>

NextCkpt ==
    \/ SummarizeCheckpoint /\ UNCHANGED <<featVars, splitVars, batchVars, pipeVars>>
    \/ SkipCheckpoint /\ UNCHANGED <<featVars, splitVars, batchVars, pipeVars>>
    \/ ReturnSummaries /\ UNCHANGED <<featVars, splitVars, batchVars, pipeVars>>

NextPipe ==
    \/ StatementReturns /\ UNCHANGED <<featVars, splitVars, batchVars, ckptVars>>
    \/ TryStatementRaises /\ UNCHANGED <<featVars, splitVars, batchVars, ckptVars>>
    \/ StatementRaises /\ UNCHANGED <<featVars, splitVars, batchVars, ckptVars>>
    \/ TrainStep /\ UNCHANGED <<featVars, splitVars, batchVars, ckptVars>>
    \/ Evaluate /\ UNCHANGED <<featVars, splitVars, batchVars, ckptVars>>
    \/ on_evaluate /\ UNCHANGED <<featVars, splitVars, batchVars, ckptVars>>
    \/ on_evaluate_raises /\ UNCHANGED <<featVars, splitVars, batchVars, ckptVars>>
    \/ TrainRaises /\ UNCHANGED <<featVars, splitVars, batchVars, ckptVars>>
    \/ TrainReturns /\ UNCHANGED <<featVars, splitVars, batchVars, ckptVars>>

FeatInit  == InitFeat /\ IdleSplit /\ IdleBatch /\ IdleCkpt /\ IdlePipe
SplitInit == IdleFeat /\ InitSplit /\ IdleBatch /\ IdleCkpt /\ IdlePipe
BatchInit == IdleFeat /\ IdleSplit /\ InitBatch /\ IdleCkpt /\ IdlePipe
CkptInit  == IdleFeat /\ IdleSplit /\ IdleBatch /\ InitCkpt /\ IdlePipe
PipeInit  == IdleFeat /\ IdleSplit /\ IdleBatch /\ IdleCkpt /\ InitPipe

SpecFeat  == FeatInit /\ [][NextFeat]_vars
SpecSplit == SplitInit /\ [][NextSplit]_vars
SpecBatch == BatchInit /\ [][NextBatch]_vars
SpecCkpt  == CkptInit /\ [][NextCkpt]_vars
SpecPipe  == PipeInit /\ [][NextPipe]_vars

----------------------------------------------------------------------------
(* Properties *)

\* C1 (as stated): for every target token-id sequence of the batch, the
\* empty one included, the decoder input [pad] + ids[:-1] is as long as the
\* label sequence and starts with the padding-token id.
C1_DecoderInputLengthAlways ==
    conv_pc = "returned" =>
        \A i \in 1..Len(example_batch) :
            /\ Len(target_encodings.input_ids[i]) = Len(target_encodings.labels[i])
            /\ target_encodings.input_ids[i][1] = pad_token_id

\* C1 (amended): the decoder input always starts with the padding-token id;
\* it is as long as the label sequence for every non-empty target sequence,
\* and it is the one-element [pad] for an empty target sequence.
C1_DecoderInputLengthNonEmpty ==
    conv_pc = "returned" =>
        \A i \in 1..Len(example_batch) :
            LET ids == example_batch[i].summary
                dec == target_encodings.input_ids[i]
                lab == target_encodings.labels[i]
            IN  /\ dec[1] = pad_token_id
                /\ lab = ids
                /\ ids # <<>> => Len(dec) = Len(lab)
                /\ ids = <<>> => dec = <<pad_token_id>>

C1_Witness ==
    /\ conv_pc = "returned"
    /\ \E i, j \in 1..Len(example_batch) :
          /\ Len(example_batch[i].summary) = 1
          /\ Len(example_batch[j].summary) = MaxLen
          /\ example_batch[j].summary[MaxLen] # pad_token_id

\* C2: the value returned under 'labels' is the unshifted tokenized target
\* sequence of each example, not the right-shifted decoder input.
C2_ReturnedLabelsUnshifted ==
    conv_pc = "returned" =>
        \A i \in 1..Len(example_batch) :
            features.labels[i] = example_batch[i].summary

\* C3: once the three percentage slices are read, they are pairwise
\* disjoint and together hold every example of the collection exactly once.
C3_SplitsPartition ==
    split_pc = <<>> =>
        LET tr == dataset_empathic.train
            va == dataset_empathic.validation
            te == dataset_empathic.test
        IN  /\ Range(tr) \cap Range(va) = {}
            /\ Range(tr) \cap Range(te) = {}
            /\ Range(va) \cap Range(te) = {}
            /\ Range(tr) \cup Range(va) \cup Range(te) = 1..num_examples
            /\ Len(tr) + Len(va) + Len(te) = num_examples

C3_Witness ==
    /\ split_pc = <<>>
    /\ (90 * num_examples) % 100 = 50
    /\ dataset_empathic.train # <<>>
    /\ dataset_empathic.validation # <<>>
    /\ dataset_empathic.test # <<>>

\* C4: a finalized evaluation of N examples with batch size B has issued
\* ceil(N/B) generation calls on contiguous batches; all but the last have B
\* examples, the last has N mod B (B when that is 0), and none is padded.
C4_BatchCount ==
    eval_pc = "finalized" =>
        LET N == Len(test_ds)
            B == batch_size
            k == Len(generate_calls)
        IN  /\ k = (N + B - 1) \div B
            /\ \A i \in 1..(k - 1) : Len(generate_calls[i]) = B
            /\ k > 0 => Len(generate_calls[k]) = (IF N % B = 0 THEN B ELSE N % B)
            /\ \A i \in 1..k : \A j \in 1..Len(generate_calls[i]) :
                  generate_calls[i][j] = test_ds[(i - 1) * B + j]

C4_Witness ==
    /\ eval_pc = "finalized"
    /\ Len(test_ds) > batch_size
    /\ Len(test_ds) % batch_size # 0

\* the indices below pos, in order, whose checkpoint satisfies the test
CheckpointsBefore(pos, Test(_)) ==
    SelectSeq([i \in 1..(pos - 1) |-> i], Test)

\* C5: the checkpoint generator never raises; at every point it holds the
\* pairs of exactly the visited checkpoints that did not fail, in order, and
\* one logged error per visited failed checkpoint; it returns only after it
\* has visited every checkpoint.
C5_FailureIsolation ==
    LET IsOk(i) == checkpoints[i] = "ok"
        IsFailed(i) == checkpoints[i] # "ok"
        ok == CheckpointsBefore(ckpt_pos, IsOk)
    IN  /\ ckpt_pc # "raised"
        /\ ckpt_pc \in {"iterating", "returned"} =>
              /\ summaries = [j \in 1..Len(ok) |-> <<ok[j], "summary">>]
              /\ ckpt_errors = CheckpointsBefore(ckpt_pos, IsFailed)
        /\ ckpt_pc = "returned" => ckpt_pos = Len(checkpoints) + 1

C5_Witness ==
    /\ ckpt_pc = "returned"
    /\ Len(checkpoints) = 3
    /\ checkpoints[2] # "ok"
    /\ Len(summaries) = 2
    /\ Len(ckpt_errors) = 1

\* the statements that follow the first save step of the running script
LaterSteps ==
    {Program(script)[i] : i \in {j \in 1..Len(Program(script)) :
        \E n \in 1..j : Program(script)[n] \in SaveSteps}}

\* C6: a save step that fails is caught and its error logged; no run crashes
\* once a save step was attempted, and a finished run has executed every
\* statement from the first save step on, whichever save steps failed.
C6_SaveFailuresIsolated ==
    /\ \A i \in 1..Len(trace) :
          trace[i].step \in SaveSteps =>
              /\ trace[i].result # "raised"
              /\ trace[i].result = "caught" =>
                    ErrorMessage(trace[i].step) \in Range(log)
    /\ status = "crashed" => \A s \in SaveSteps : ~Attempted(s)
    /\ status = "done" => \A s \in LaterSteps : Attempted(s)

C6_Witness ==
    /\ status = "done"
    /\ \A i \in 1..Len(trace) :
          trace[i].step \in SaveSteps => trace[i].result = "caught"
    /\ Attempted("summarize")

\* the statement attempted right after trainer.train() returned is step
NextAfterTrainIs(step) ==
    \A i \in 1..(Len(trace) - 1) :
        (trace[i].step = "train" /\ trace[i].result = "ok") =>
            trace[i + 1].step = step

\* every attempted save step comes after an attempted final scoring
SavesFollowFinalScore ==
    \A i \in 1..Len(trace) :
        trace[i].step \in SaveSteps =>
            \E j \in 1..(i - 1) : trace[j].step = "final_score"

\* C7 (as stated): in each script the final scoring is the statement that
\* follows training, and no save step precedes it.
C7_FinalScoreThenSaveBoth ==
    /\ NextAfterTrainIs("final_score")
    /\ SavesFollowFinalScore

\* C7 (amended): empathetic_summaries.py scores once more right after
\* training and saves only after that; trainer.py has no final scoring, its
\* first statement after training is the model save.
C7_FinalScoreThenSaveEmpathetic ==
    /\ script = "empathetic" =>
          /\ NextAfterTrainIs("final_score")
          /\ SavesFollowFinalScore
    /\ script = "trainer" =>
          /\ NextAfterTrainIs("save_trainer_model")
          /\ ~Attempted("final_score")

C7_Witness ==
    /\ script = "empathetic"
    /\ status = "done"
    /\ Returned("final_score")
    /\ Returned("save_tokenizer")

Terminated == status \in {"done", "crashed"}

\* C8: a step of on_evaluate calls the evaluator and, when it returns, logs
\* the scores tagged with state.epoch; it leaves args, state, control, the
\* weights and the optimizer as they were; every evaluation of trainer.py
\* is followed by the callback.
C8_OnEvaluateObservational ==
    [][/\ (status = "running" /\ train_pc = "on_evaluate") =>
            /\ UNCHANGED <<args, state, control, weights, optimizer>>
            /\ evaluator_calls' = evaluator_calls + 1
            /\ status' = "running" => rouge_log' = Append(rouge_log, state.epoch)
       /\ (status = "running" /\ train_pc = "evaluate" /\ script = "trainer"
             /\ status' = "running") => train_pc' = "on_evaluate"]_vars

C8_Witness ==
    /\ script = "trainer"
    /\ Len(rouge_log) = 2
    /\ rouge_log[2] = EpochAt(2 * EvalSteps)
    /\ weights = 2 * EvalSteps
    /\ train_pc = "step"

\* C10 (as stated): in each script, a run that ended after trainer.train()
\* returned has attempted a save of the fine-tuned model.
C10_SaveAttemptedBoth ==
    (Returned("train") /\ Terminated) =>
        \E s \in ModelSaveSteps : Attempted(s)

\* C10 (amended): in trainer.py a run that ended after training returned
\* has attempted a model save; in empathetic_summaries.py it has done so
\* exactly when the final scoring, which is uncaught, returned.
C10_SaveAttemptedUnlessScoringRaised ==
    (Returned("train") /\ Terminated) =>
        /\ script = "trainer" => \E s \in ModelSaveSteps : Attempted(s)
        /\ script = "empathetic" =>
              ((\E s \in ModelSaveSteps : Attempted(s)) <=> Returned("final_score"))

C10_Witness ==
    /\ script = "empathetic"
    /\ status = "crashed"
    /\ Returned("train")
    /\ Attempted("final_score")

====
